---- MODULE Spec2Model ----
(***************************************************************************)
(* concurrenttools: thread_batch, thread_pool_batch and async_batch.       *)
(*                                                                         *)
(* pc[0] is the position of the caller of the batch function.  pc[i] is   *)
(* the position of the thread (thread_batch, thread_pool_batch) or of the  *)
(* TaskGroup child (async_batch) that runs the work function for task i,   *)
(* the i-th task pushed.  The worker threads of thread_batch are           *)
(* interchangeable while they are outside the work function: idle counts   *)
(* them by their position in the loop of worker().                         *)
(* pc[MaxTasks + i] is the position of the helper thread that the work     *)
(* invocation of task i may start to call submit later (EnvSpec only).     *)
(***************************************************************************)
EXTENDS Integers, Sequences, FiniteSets, TLC

\* ---------------------------------------------------------------- bounds
MaxTasks == 4      \* tasks pushed during one call (initial + submitted)
MaxInit == 3       \* length of the initial task collection
MaxVal == 3        \* largest task value
MaxFan == 2        \* submit calls made by one work invocation
MaxFailVal == 1    \* largest task value the work function can fail on
MaxWorkersArg == 2 \* largest explicit max_workers argument
MaxPermits == 2    \* largest initial value of the semaphore

\* ------------------------------------------------------------ environment
cpu_count == 1
NoFail == 0 - 1
Sentinal == 0
Main == 0
Workers == 1..MaxTasks
Helpers == (MaxTasks + 1)..(2 * MaxTasks)
Threads == {Main} \cup Workers \cup Helpers

\* the helper thread that the work invocation of task i starts, and back
Helper(i) == MaxTasks + i
StartedBy(h) == h - MaxTasks
Backends == {"thread", "pool", "async"}

Min(a, b) == IF a < b THEN a ELSE b

\* An Optional[int] is a sequence of length at most one; None is <<>>.
None == <<>>
Some(n) == <<n>>

VARIABLES
    backend,      \* which of the three functions is called
    work,         \* the work function: [argcount, fan, fail, kind, late]
    tasks,        \* what is left of the iterable of initial tasks
    callback,     \* TRUE iff callback is not None
    callback_kind,\* what the callback does: "plain", "awaits" or "raises"
    max_workers,  \* Optional[int], overwritten by the default
    sema,         \* Optional[int]: free permits of the AsyncSemaphore
    permits,      \* Optional[int]: the permits the semaphore was created with
    with_submit,
    pc,           \* pc[0]: the caller; pc[i]: the thread or child running task i
    kids,         \* submit calls the running invocation of task i has still to make
    idle,         \* thread_batch: the number of workers at each place outside work
    tk,           \* every task pushed so far, in the order of its push
    collected,    \* the results the callback has received
    q, unfinished, nthreads, running, lock,
    ntasks, done_evt, pool, wq,
    tg

vars == <<backend, work, tasks, callback, callback_kind, max_workers, sema, permits,
          with_submit,
          pc, kids, idle, tk, collected,
          q, unfinished, nthreads, running, lock,
          ntasks, done_evt, pool, wq, tg>>

cfgvars == <<backend, work, callback, callback_kind, permits>>
tbvars == <<q, unfinished, nthreads, running, idle>>
tpbvars == <<ntasks, done_evt, pool, wq>>

\* ---------------------------------------------------------- the work function
argcount(w) == w.argcount

\* work(x) = x * 2 ; work(x, submit) = { if x > 0: submit(x - 1) (fan times); return x }
\* and, for the value work.fail, an exception instead of the return: an
\* Exception (kind "exc") or a KeyboardInterrupt (kind "kbd").
\* A late work function hands submit to a helper thread instead of calling
\* it: work(x, submit) = { if x > 0: Thread(target=submit, args=(x - 1,)).start(); return x }
Result(x) == IF with_submit THEN x ELSE x * 2
NKids(x) == IF with_submit /\ x > 0 /\ ~work.late THEN work.fan ELSE 0
Raises(x) == x = work.fail

\* the callback: callback(r) collects r; a callback of kind "awaits" returns
\* an awaitable that suspends once and then collects r; a callback of kind
\* "raises" raises, instead of collecting, on the result of task 0
CallbackKinds(b, cb) ==
    IF ~cb THEN {"plain"}
    ELSE IF b = "async" THEN {"plain", "awaits", "raises"}
    ELSE {"plain", "raises"}
CbRaises(x) == callback /\ callback_kind = "raises" /\ x = 0

RECURSIVE Total(_, _)
Total(x, fan) == IF x <= 0 \/ fan = 0 THEN 1 ELSE 1 + fan * Total(x - 1, fan)

RECURSIVE TotalSeq(_, _)
TotalSeq(s, fan) == IF s = <<>> THEN 0 ELSE Total(Head(s), fan) + TotalSeq(Tail(s), fan)

WorkFns ==
    {[argcount |-> 0, fan |-> 0, fail |-> NoFail, kind |-> "exc", late |-> FALSE]}
    \cup {[argcount |-> 1, fan |-> 0, fail |-> f, kind |-> "exc", late |-> FALSE] :
             f \in NoFail..MaxFailVal}
    \cup {[argcount |-> 2, fan |-> n, fail |-> f, kind |-> "exc", late |-> FALSE] :
             n \in 1..MaxFan, f \in NoFail..MaxFailVal}
    \cup {[argcount |-> a, fan |-> a - 1, fail |-> f, kind |-> "kbd", late |-> FALSE] :
             a \in 1..2, f \in 0..MaxFailVal}

LateWorkFns ==
    {[argcount |-> 2, fan |-> 1, fail |-> NoFail, kind |-> "exc", late |-> TRUE]}

InitTasks ==
    {[i \in 1..n |-> i] : n \in 0..MaxInit}
    \cup {<<k>> : k \in 0..MaxVal}
    \cup {<<a, b>> : a, b \in 0..1}

\* one entry of tk: the task value, how often work was entered for it (inv),
\* how often the callback got its result (cb), how often it was marked done
\* or taken off the counter (done), how often its works() set the event
\* (sig), whether its invocation raised (exc), whether the callback raised
\* on its result (cbexc), the call shape used (shape),
\* the thread that submitted it (by) and where it is (st)
NewTask(x) == [val |-> x, inv |-> 0, cb |-> 0, done |-> 0, sig |-> 0, exc |-> FALSE,
               cbexc |-> FALSE, shape |-> 0, by |-> 0, st |-> "pushed"]

\* ------------------------------------------------------------------ Init
Start(backends, workfns) ==
    /\ backend \in backends
    /\ work \in workfns
    /\ tasks \in {s \in InitTasks : TotalSeq(s, IF work.argcount > 1 THEN work.fan ELSE 0) <= MaxTasks}
    /\ callback \in BOOLEAN
    /\ callback_kind \in CallbackKinds(backend, callback)
    /\ max_workers \in IF backend = "async" THEN {None}
                       ELSE {None} \cup {Some(n) : n \in (0 - 1)..MaxWorkersArg}
    /\ sema \in IF backend = "async" THEN {None} \cup {Some(n) : n \in 1..MaxPermits}
                ELSE {None}
    /\ permits = sema
    /\ with_submit = FALSE
    /\ pc = [t \in Threads |-> IF t = Main THEN "argcheck" ELSE "off"]
    /\ idle = [p \in {"w_loop", "w_get", "w_sent", "w_exit"} |-> 0]
    /\ kids = [t \in Threads |-> 0]
    /\ tk = <<>>
    /\ collected = {}
    /\ q = <<>>
    /\ unfinished = 0
    /\ nthreads = 0
    /\ running = TRUE
    /\ lock = None
    /\ ntasks = 0
    /\ done_evt = FALSE
    /\ pool = "none"
    /\ wq = <<>>
    /\ tg = "none"

\* a call of one of the three functions with a work function that calls
\* submit, if at all, before it returns
Init == Start(Backends, WorkFns)

\* --------------------------------------------------------- shared prologue
\* (variant: the check lets a function without positional arguments through)
BadArity_off_by_one(ac) == ac < 0

\* lines 34-36: ac = argcount(work); if ac < 1: raise TypeError
BadArity(ac) == ac < 1

\* (variant: only None falls back to the default)
DefaultWorkers_none_only(mw) ==
    IF mw = None THEN Some(Min(32, cpu_count + 4)) ELSE mw

\* lines 38-39: if max_workers is None or max_workers <= 0: min(32, (cpu_count() or 1) + 4)
DefaultWorkers(mw) ==
    IF mw = None \/ mw[1] <= 0 THEN Some(Min(32, cpu_count + 4)) ELSE mw

MW == max_workers[1]

\* ------------------------------------------------------------ thread_batch
\* lines 34-46
thread_batch_argcheck ==
    /\ backend = "thread"
    /\ pc[Main] = "argcheck"
    /\ IF BadArity(argcount(work))
         THEN /\ pc' = [pc EXCEPT ![Main] = "raised"]
              /\ UNCHANGED <<with_submit, max_workers>>
         ELSE /\ with_submit' = (argcount(work) > 1)
              /\ max_workers' = DefaultWorkers(max_workers)
              /\ pc' = [pc EXCEPT ![Main] = "m_loop"]
    /\ UNCHANGED <<cfgvars, tasks, sema, kids, tk, collected, tbvars, lock, tpbvars, tg>>

\* line 80: for task in tasks: submit(task)
thread_batch_loop ==
    /\ backend = "thread"
    /\ pc[Main] = "m_loop"
    /\ pc' = [pc EXCEPT ![Main] = IF tasks = <<>> THEN "m_join" ELSE "s_check"]
    /\ UNCHANGED <<cfgvars, tasks, max_workers, sema, with_submit, kids, tk,
                   collected, tbvars, lock, tpbvars, tg>>

\* the task a thread is submitting: the next initial task, or x - 1 from work(x, submit)
SubmitVal(t) ==
    IF t = Main THEN Head(tasks)
    ELSE IF t \in Helpers THEN tk[StartedBy(t)].val - 1
    ELSE tk[t].val - 1

\* (variant: a worker is started only when no worker is waiting for a task)
BelowCap_and_none_idle == nthreads < MW /\ idle["w_loop"] + idle["w_get"] = 0

\* line 73: nthreads < max_workers, whatever the workers are doing
BelowCap == nthreads < MW

\* line 73: if nthreads < max_workers (not under the lock)
submit_check(t) ==
    /\ backend = "thread"
    /\ pc[t] = "s_check"
    /\ pc' = [pc EXCEPT ![t] = IF BelowCap THEN "s_lock" ELSE "s_put"]
    /\ UNCHANGED <<cfgvars, tasks, max_workers, sema, with_submit, kids, tk,
                   collected, tbvars, lock, tpbvars, tg>>

\* line 74: with lock
submit_lock(t) ==
    /\ backend = "thread"
    /\ pc[t] = "s_lock"
    /\ lock = None
    /\ lock' = Some(t)
    /\ pc' = [pc EXCEPT ![t] = "s_crit"]
    /\ UNCHANGED <<cfgvars, tasks, max_workers, sema, with_submit, kids, tk,
                   collected, tbvars, tpbvars, tg>>

\* (variant: no second check under the lock)
MayStart_unchecked == TRUE

\* line 75: the second check, under the lock
MayStart == nthreads < MW

\* lines 75-77: if nthreads < max_workers: start_new_thread(worker, ());
\* nthreads += 1; the lock is released
submit_start(t) ==
    /\ backend = "thread"
    /\ pc[t] = "s_crit"
    /\ lock = Some(t)
    /\ IF MayStart
         THEN /\ nthreads' = nthreads + 1
              /\ idle' = [idle EXCEPT !["w_loop"] = @ + 1]
         ELSE UNCHANGED <<nthreads, idle>>
    /\ lock' = None
    /\ pc' = [pc EXCEPT ![t] = "s_put"]
    /\ UNCHANGED <<cfgvars, tasks, max_workers, sema, with_submit, kids, tk,
                   collected, q, unfinished, running, tpbvars, tg>>

\* line 78: put(task); Queue.put counts the task as unfinished.
\* submit then returns, to the loop over the initial tasks or into work
submit_put(t) ==
    /\ backend = "thread"
    /\ pc[t] = "s_put"
    /\ tk' = Append(tk, [NewTask(SubmitVal(t)) EXCEPT !.by = t])
    /\ q' = Append(q, Len(tk) + 1)
    /\ unfinished' = unfinished + 1
    /\ IF t = Main
         THEN /\ tasks' = Tail(tasks)
              /\ pc' = [pc EXCEPT ![t] = "m_loop"]
              /\ UNCHANGED kids
         ELSE /\ kids' = [kids EXCEPT ![t] = kids[t] - 1]
              /\ pc' = [pc EXCEPT ![t] = IF t \in Helpers THEN "h_done"
                                        ELSE IF kids[t] > 1 THEN "s_check" ELSE "w_ret"]
              /\ UNCHANGED tasks
    /\ UNCHANGED <<cfgvars, max_workers, sema, with_submit, collected,
                   nthreads, running, idle, lock, tpbvars, tg>>

\* a worker moves from one position outside work to another
Move(from, to) == [idle EXCEPT ![from] = @ - 1, ![to] = @ + 1]

\* line 50: while running
worker_loop ==
    /\ backend = "thread"
    /\ idle["w_loop"] > 0
    /\ idle' = Move("w_loop", IF running THEN "w_get" ELSE "w_exit")
    /\ UNCHANGED <<cfgvars, tasks, max_workers, sema, with_submit, pc, kids, tk,
                   collected, q, unfinished, nthreads, running, lock, tpbvars, tg>>

\* the call of work: work(task, submit) if with_submit else work(task)
Invoke(i) == [tk EXCEPT ![i].inv = @ + 1, ![i].shape = IF with_submit THEN 2 ELSE 1,
                        ![i].st = "running"]

\* lines 51-63: task = get(timeout=1); on Empty: continue; a task that is
\* not the sentinal is passed to work, which runs up to its first submit
worker_get ==
    /\ backend = "thread"
    /\ idle["w_get"] > 0
    /\ IF q = <<>>
         THEN /\ idle' = Move("w_get", "w_loop")
              /\ UNCHANGED <<q, pc, kids, tk>>
         ELSE /\ q' = Tail(q)
              /\ IF Head(q) = Sentinal
                   THEN /\ idle' = Move("w_get", "w_sent")
                        /\ UNCHANGED <<pc, kids, tk>>
                   ELSE /\ idle' = [idle EXCEPT !["w_get"] = @ - 1]
                        /\ tk' = Invoke(Head(q))
                        /\ kids' = [kids EXCEPT ![Head(q)] = NKids(tk[Head(q)].val)]
                        /\ pc' = [pc EXCEPT ![Head(q)] =
                                    IF NKids(tk[Head(q)].val) > 0 THEN "s_check" ELSE "w_ret"]
    /\ UNCHANGED <<cfgvars, tasks, max_workers, sema, with_submit,
                   collected, unfinished, nthreads, running, lock, tpbvars, tg>>

\* (variant: the worker that pops the sentinal keeps it)
Repush_dropped(queue) == queue

\* line 56: put(sentinal)
Repush(queue) == Append(queue, Sentinal)

\* lines 55-57: if task is sentinal: put(sentinal); break
worker_sentinal ==
    /\ backend = "thread"
    /\ idle["w_sent"] > 0
    /\ q' = Repush(q)
    /\ unfinished' = unfinished + 1
    /\ idle' = Move("w_sent", "w_exit")
    /\ UNCHANGED <<cfgvars, tasks, max_workers, sema, with_submit, pc, kids, tk,
                   collected, nthreads, running, lock, tpbvars, tg>>

\* a finished invocation: callback(r) when work returned r and there is a
\* callback, the exception noted when work raised
Finish(i) ==
    IF Raises(tk[i].val)
      THEN [tk EXCEPT ![i].exc = TRUE, ![i].done = @ + 1, ![i].st = "finished"]
    ELSE IF CbRaises(tk[i].val)
      THEN [tk EXCEPT ![i].cb = @ + 1, ![i].cbexc = TRUE, ![i].done = @ + 1,
                      ![i].st = "finished"]
    ELSE IF callback
      THEN [tk EXCEPT ![i].cb = @ + 1, ![i].done = @ + 1, ![i].st = "finished"]
    ELSE [tk EXCEPT ![i].done = @ + 1, ![i].st = "finished"]

Collect(i) ==
    IF ~Raises(tk[i].val) /\ callback /\ ~CbRaises(tk[i].val)
      THEN collected \cup {Result(tk[i].val)}
    ELSE collected

\* (variant: except Exception, which lets a KeyboardInterrupt through)
Swallowed_exception_only(kind) == kind = "exc"

\* lines 66-67: except BaseException: pass catches every kind of exception
Swallowed(kind) == kind \in {"exc", "kbd"}

\* where the invocation of task i raised, if it did
RaisedAt(i) ==
    IF Raises(tk[i].val) THEN "work"
    ELSE IF CbRaises(tk[i].val) THEN "callback"
    ELSE "nowhere"

\* (variant: callback(r) is called after the try statement)
InTry_work_only(where) == where = "work"

\* lines 59-65: the call of work and the call of callback are both in the
\* body of the try statement
InTry(where) == where \in {"work", "callback"}

\* lines 63-69: work returns r and callback(r) is called, or work raises and
\* the exception is discarded; finally: task_done(); back to the loop.
\* (An exception that were not caught would end the worker thread.)
worker_task_done(t) ==
    /\ backend = "thread"
    /\ pc[t] = "w_ret"
    /\ tk' = Finish(t)
    /\ collected' = Collect(t)
    /\ unfinished' = unfinished - 1
    /\ IF RaisedAt(t) # "nowhere" /\ ~(InTry(RaisedAt(t)) /\ Swallowed(work.kind))
         THEN /\ pc' = [pc EXCEPT ![t] = "dead"]
              /\ UNCHANGED idle
         ELSE /\ pc' = [pc EXCEPT ![t] = "fin"]
              /\ idle' = [idle EXCEPT !["w_loop"] = @ + 1]
    /\ UNCHANGED <<cfgvars, tasks, max_workers, sema, with_submit, kids,
                   q, nthreads, running, lock, tpbvars, tg>>

\* (variant: the caller waits for an empty queue instead of q.join())
AllTasksDone_queue_empty == q = <<>>

\* Queue.join returns when every task put has been marked done
AllTasksDone == unfinished = 0

\* lines 82-83: q.join()
thread_batch_join ==
    /\ backend = "thread"
    /\ pc[Main] = "m_join"
    /\ AllTasksDone
    /\ pc' = [pc EXCEPT ![Main] = "m_stop"]
    /\ UNCHANGED <<cfgvars, tasks, max_workers, sema, with_submit, kids, tk,
                   collected, tbvars, lock, tpbvars, tg>>

\* line 85: running = False
thread_batch_stop ==
    /\ backend = "thread"
    /\ pc[Main] \in {"m_stop", "x_stop"}
    /\ running' = FALSE
    /\ pc' = [pc EXCEPT ![Main] = IF pc[Main] = "m_stop" THEN "m_clear" ELSE "x_clear"]
    /\ UNCHANGED <<cfgvars, tasks, max_workers, sema, with_submit, kids, tk,
                   collected, q, unfinished, nthreads, idle, lock, tpbvars, tg>>

\* line 86: q.queue.clear()
thread_batch_clear ==
    /\ backend = "thread"
    /\ pc[Main] \in {"m_clear", "x_clear"}
    /\ q' = <<>>
    /\ pc' = [pc EXCEPT ![Main] = IF pc[Main] = "m_clear" THEN "m_sent" ELSE "x_sent"]
    /\ UNCHANGED <<cfgvars, tasks, max_workers, sema, with_submit, kids, tk,
                   collected, unfinished, nthreads, running, idle, lock, tpbvars, tg>>

\* line 87: put(sentinal); the call returns, or raises what interrupted
\* q.join()
thread_batch_put_sentinal ==
    /\ backend = "thread"
    /\ pc[Main] \in {"m_sent", "x_sent"}
    /\ q' = Append(q, Sentinal)
    /\ unfinished' = unfinished + 1
    /\ pc' = [pc EXCEPT ![Main] = IF pc[Main] = "m_sent" THEN "returned" ELSE "raised"]
    /\ UNCHANGED <<cfgvars, tasks, max_workers, sema, with_submit, kids, tk,
                   collected, nthreads, running, idle, lock, tpbvars, tg>>

\* line 80: next(iter(tasks)) raises; the loop is not inside the try
\* statement, so the exception leaves thread_batch at once
thread_batch_iter_raises ==
    /\ backend = "thread"
    /\ pc[Main] = "m_loop"
    /\ pc' = [pc EXCEPT ![Main] = "raised"]
    /\ UNCHANGED <<cfgvars, tasks, max_workers, sema, with_submit, kids, tk,
                   collected, tbvars, lock, tpbvars, tg>>

\* line 76, in a submit call of the caller's loop: start_new_thread raises
\* (no more threads can be started); with lock releases the lock and the
\* exception leaves submit, the loop and thread_batch
submit_start_fails ==
    /\ backend = "thread"
    /\ pc[Main] = "s_crit"
    /\ lock = Some(Main)
    /\ MayStart
    /\ lock' = None
    /\ pc' = [pc EXCEPT ![Main] = "raised"]
    /\ UNCHANGED <<cfgvars, tasks, max_workers, sema, with_submit, kids, tk,
                   collected, tbvars, tpbvars, tg>>

\* lines 82-84: a KeyboardInterrupt reaches the caller inside q.join(); the
\* finally block runs with the exception pending
thread_batch_interrupt ==
    /\ backend = "thread"
    /\ pc[Main] = "m_join"
    /\ pc' = [pc EXCEPT ![Main] = "x_stop"]
    /\ UNCHANGED <<cfgvars, tasks, max_workers, sema, with_submit, kids, tk,
                   collected, tbvars, lock, tpbvars, tg>>

\* the helper thread started by the work invocation of task i calls
\* submit(x - 1), at any time while the batch call is in progress
helper_submit(i) ==
    /\ backend \in {"thread", "pool"}
    /\ work.late
    /\ i \in 1..Len(tk)
    /\ tk[i].inv = 1
    /\ tk[i].val > 0
    /\ pc[Helper(i)] = "off"
    /\ pc[Main] \notin {"returned", "raised"}
    /\ pc' = [pc EXCEPT ![Helper(i)] = IF backend = "thread" THEN "s_check" ELSE "p_inc"]
    /\ kids' = [kids EXCEPT ![Helper(i)] = 1]
    /\ UNCHANGED <<cfgvars, tasks, max_workers, sema, with_submit, tk,
                   collected, tbvars, lock, tpbvars, tg>>

thread_batch ==
    \/ thread_batch_argcheck
    \/ thread_batch_loop
    \/ thread_batch_join
    \/ thread_batch_stop
    \/ thread_batch_clear
    \/ thread_batch_put_sentinal

submit(t) ==
    \/ submit_check(t)
    \/ submit_lock(t)
    \/ submit_start(t)
    \/ submit_put(t)

worker ==
    \/ worker_loop
    \/ worker_get
    \/ worker_sentinal
    \/ \E t \in Workers : worker_task_done(t)

\* ------------------------------------------------------- thread_pool_batch
\* lines 96-105 and 128-130: the arity check, then pool = ThreadPoolExecutor(max_workers)
thread_pool_batch_argcheck ==
    /\ backend = "pool"
    /\ pc[Main] = "argcheck"
    /\ IF BadArity(argcount(work))
         THEN /\ pc' = [pc EXCEPT ![Main] = "raised"]
              /\ UNCHANGED <<with_submit, max_workers, pool>>
         ELSE /\ with_submit' = (argcount(work) > 1)
              /\ max_workers' = DefaultWorkers(max_workers)
              /\ pool' = "open"
              /\ pc' = [pc EXCEPT ![Main] = "p_loop"]
    /\ UNCHANGED <<cfgvars, tasks, sema, kids, tk, collected, tbvars, lock,
                   ntasks, done_evt, wq, tg>>

\* lines 131-132: for task in tasks: submit(task)
thread_pool_batch_loop ==
    /\ backend = "pool"
    /\ pc[Main] = "p_loop"
    /\ pc' = [pc EXCEPT ![Main] = IF tasks = <<>> THEN "p_if" ELSE "p_inc"]
    /\ UNCHANGED <<cfgvars, tasks, max_workers, sema, with_submit, kids, tk,
                   collected, tbvars, lock, tpbvars, tg>>

\* (variant: only the submissions of the caller's loop are counted)
Increment_caller_only(n, t) == IF t = Main THEN n + 1 ELSE n

\* line 125: ntasks += 1, for the caller's loop and for submit from work
Increment(n, t) == n + 1

\* lines 124-125: with lock: ntasks += 1
pool_submit_count(t) ==
    /\ backend = "pool"
    /\ pc[t] = "p_inc"
    /\ lock = None
    /\ ntasks' = Increment(ntasks, t)
    /\ tk' = Append(tk, [NewTask(SubmitVal(t)) EXCEPT !.st = "counted", !.by = t])
    /\ pc' = [pc EXCEPT ![t] = "p_create"]
    /\ UNCHANGED <<cfgvars, tasks, max_workers, sema, with_submit, kids,
                   collected, tbvars, lock, done_evt, pool, wq, tg>>

\* the task a thread has counted and not yet handed to the pool
Counted(t) == CHOOSE i \in 1..Len(tk) : tk[i].st = "counted" /\ tk[i].by = t

\* line 126: return create_task(works, task).  ThreadPoolExecutor.submit
\* raises RuntimeError once the pool is shut down; the exception then
\* leaves the work function that called submit
pool_submit_create(t) ==
    /\ backend = "pool"
    /\ pc[t] = "p_create"
    /\ IF pool = "open"
         THEN /\ wq' = Append(wq, Counted(t))
              /\ tk' = [tk EXCEPT ![Counted(t)].st = "queued"]
              /\ IF t = Main
                   THEN /\ tasks' = Tail(tasks)
                        /\ pc' = [pc EXCEPT ![t] = "p_loop"]
                        /\ UNCHANGED kids
                   ELSE /\ kids' = [kids EXCEPT ![t] = kids[t] - 1]
                        /\ pc' = [pc EXCEPT ![t] = IF t \in Helpers THEN "h_done"
                                                  ELSE IF kids[t] > 1 THEN "p_inc" ELSE "k_ret"]
                        /\ UNCHANGED tasks
         ELSE /\ IF t \in Helpers
                   THEN /\ tk' = [tk EXCEPT ![Counted(t)].st = "rejected"]
                        /\ pc' = [pc EXCEPT ![t] = "h_dead"]
                   ELSE /\ tk' = [tk EXCEPT ![Counted(t)].st = "rejected", ![t].exc = TRUE]
                        /\ pc' = [pc EXCEPT ![t] = "k_dec"]
              /\ UNCHANGED <<wq, tasks, kids>>
    /\ UNCHANGED <<cfgvars, max_workers, sema, with_submit, collected,
                   tbvars, lock, ntasks, done_evt, pool, tg>>

\* the threads of the pool that are inside works()
Busy == {i \in 1..Len(tk) : pc[i] \in {"p_inc", "p_create", "k_ret", "k_dec", "k_test"}}

\* the pool has max_workers threads
FreeThread == Cardinality(Busy) < MW

\* lines 109-113: a free thread of the pool takes the oldest pending work
\* item and runs works(task), which enters the work function
pool_thread_take ==
    /\ backend = "pool"
    /\ wq # <<>>
    /\ FreeThread
    /\ wq' = Tail(wq)
    /\ tk' = Invoke(Head(wq))
    /\ kids' = [kids EXCEPT ![Head(wq)] = NKids(tk[Head(wq)].val)]
    /\ pc' = [pc EXCEPT ![Head(wq)] = IF NKids(tk[Head(wq)].val) > 0 THEN "p_inc" ELSE "k_ret"]
    /\ UNCHANGED <<cfgvars, tasks, max_workers, sema, with_submit,
                   collected, tbvars, lock, ntasks, done_evt, pool, tg>>

\* (variant: the decrement after the try body instead of in finally)
Decrement_no_finally(n, raised) == IF raised THEN n ELSE n - 1

\* lines 116-118: finally: ntasks -= 1, whether or not work raised
Decrement(n, raised) == n - 1

\* lines 113-118: work returns r and callback(r) is called, or work (or
\* its submit) raises; finally: with lock: ntasks -= 1
works_finally(t) ==
    /\ backend = "pool"
    /\ pc[t] \in {"k_ret", "k_dec"}
    /\ lock = None
    /\ ntasks' = Decrement(ntasks, pc[t] = "k_dec" \/ RaisedAt(t) # "nowhere")
    /\ IF pc[t] = "k_ret"
         THEN /\ tk' = [Finish(t) EXCEPT ![t].done = ntasks - ntasks']
              /\ collected' = Collect(t)
         ELSE /\ tk' = [tk EXCEPT ![t].done = ntasks - ntasks', ![t].st = "finished"]
              /\ UNCHANGED collected
    /\ pc' = [pc EXCEPT ![t] = "k_test"]
    /\ UNCHANGED <<cfgvars, tasks, max_workers, sema, with_submit, kids,
                   tbvars, lock, done_evt, pool, wq, tg>>

\* (variant: the event is set by every works() that ends)
CounterIsZero_unchecked == TRUE

\* line 119: if not ntasks (read after the lock has been released)
CounterIsZero == ntasks = 0

\* lines 119-120: if not ntasks: done_evt.set(); works returns and the
\* thread is free again
works_signal(t) ==
    /\ backend = "pool"
    /\ pc[t] = "k_test"
    /\ done_evt' = (done_evt \/ CounterIsZero)
    /\ tk' = [tk EXCEPT ![t].sig = IF CounterIsZero THEN @ + 1 ELSE @]
    /\ pc' = [pc EXCEPT ![t] = "fin"]
    /\ UNCHANGED <<cfgvars, tasks, max_workers, sema, with_submit, kids,
                   collected, tbvars, lock, ntasks, pool, wq, tg>>

\* line 133: if ntasks
thread_pool_batch_if ==
    /\ backend = "pool"
    /\ pc[Main] = "p_if"
    /\ pc' = [pc EXCEPT ![Main] = IF ntasks # 0 THEN "p_wait" ELSE "p_shutdown"]
    /\ UNCHANGED <<cfgvars, tasks, max_workers, sema, with_submit, kids, tk,
                   collected, tbvars, lock, tpbvars, tg>>

\* line 134: done_evt.wait()
thread_pool_batch_wait ==
    /\ backend = "pool"
    /\ pc[Main] = "p_wait"
    /\ done_evt
    /\ pc' = [pc EXCEPT ![Main] = "p_shutdown"]
    /\ UNCHANGED <<cfgvars, tasks, max_workers, sema, with_submit, kids, tk,
                   collected, tbvars, lock, tpbvars, tg>>

\* lines 135-136: finally: pool.shutdown(False, cancel_futures=True): every
\* pending work item is cancelled, the running ones are not waited for
thread_pool_batch_shutdown ==
    /\ backend = "pool"
    /\ pc[Main] = "p_shutdown"
    /\ pool' = "shutdown"
    /\ wq' = <<>>
    /\ tk' = [i \in 1..Len(tk) |->
                IF tk[i].st = "queued" THEN [tk[i] EXCEPT !.st = "cancelled"] ELSE tk[i]]
    /\ pc' = [pc EXCEPT ![Main] = "returned"]
    /\ UNCHANGED <<cfgvars, tasks, max_workers, sema, with_submit, kids,
                   collected, tbvars, lock, ntasks, done_evt, tg>>

thread_pool_batch ==
    \/ thread_pool_batch_argcheck
    \/ thread_pool_batch_loop
    \/ thread_pool_batch_if
    \/ thread_pool_batch_wait
    \/ thread_pool_batch_shutdown

pool_submit(t) ==
    \/ pool_submit_count(t)
    \/ pool_submit_create(t)

works(t) ==
    \/ works_finally(t)
    \/ works_signal(t)

\* ------------------------------------------------------------- async_batch
\* Child i of the TaskGroup runs works(task i).  There is one event loop:
\* a child runs only while the caller is suspended in TaskGroup.__aexit__,
\* and a step of a child runs from one suspension point to the next.

\* lines 145-148 and 172-173: the arity check, then async with TaskGroup() as tg
async_batch_argcheck ==
    /\ backend = "async"
    /\ pc[Main] = "argcheck"
    /\ IF BadArity(argcount(work))
         THEN /\ pc' = [pc EXCEPT ![Main] = "raised"]
              /\ UNCHANGED <<with_submit, tg>>
         ELSE /\ with_submit' = (argcount(work) > 1)
              /\ tg' = "open"
              /\ pc' = [pc EXCEPT ![Main] = "a_loop"]
    /\ UNCHANGED <<cfgvars, tasks, max_workers, sema, kids, tk, collected,
                   tbvars, lock, tpbvars>>

\* lines 170-171: submit(task) = create_task(works(task)), n times for the
\* value x: the new children are registered in the group, not yet started
Register(x, n, t) == tk \o [k \in 1..n |-> [NewTask(x) EXCEPT !.st = "child", !.by = t]]
Started(n) == [t \in Threads |->
                 IF t > Len(tk) /\ t <= Len(tk) + n THEN "c_new" ELSE pc[t]]

\* lines 174-175: for task in tasks: submit(task); the body of the
\* async with has no suspension point
async_batch_loop ==
    /\ backend = "async"
    /\ pc[Main] = "a_loop"
    /\ IF tasks = <<>>
         THEN /\ pc' = [pc EXCEPT ![Main] = "a_exit"]
              /\ UNCHANGED <<tasks, tk>>
         ELSE /\ tk' = Register(Head(tasks), 1, Main)
              /\ pc' = Started(1)
              /\ tasks' = Tail(tasks)
    /\ UNCHANGED <<cfgvars, max_workers, sema, with_submit, kids, collected,
                   tbvars, lock, tpbvars, tg>>

Scheduled(i) == backend = "async" /\ pc[Main] = "a_exit" /\ i <= Len(tk)

\* a group that aborts requests the cancellation of every unfinished child
\* at once: such a child takes no further step but the one that cancels it
Cancelling == tg = "aborting"

\* lines 152-161: await work(task[, submit]): the work function is entered,
\* makes its submit calls and suspends
EnterWork(i) ==
    /\ tk' = [j \in 1..(Len(tk) + NKids(tk[i].val)) |->
                IF j = i THEN Invoke(i)[i]
                ELSE Register(tk[i].val - 1, NKids(tk[i].val), i)[j]]
    /\ pc' = [Started(NKids(tk[i].val)) EXCEPT ![i] = "c_work"]

\* (variant: the permit is kept when the block is left)
Release_kept == sema

\* the end of async with sema
Release == IF sema = None THEN sema ELSE Some(sema[1] + 1)

\* (variant: the work function is entered without a look at the permits)
PermitFree_unchecked == TRUE

\* line 157: async with sema: a permit is free
PermitFree == sema[1] > 0

\* lines 150-157: the child starts; with a semaphore it takes a permit or
\* suspends in acquire()
async_works_start(i) ==
    /\ Scheduled(i)
    /\ ~Cancelling
    /\ pc[i] = "c_new"
    /\ IF sema = None
         THEN EnterWork(i) /\ UNCHANGED sema
         ELSE IF PermitFree
           THEN EnterWork(i) /\ sema' = Some(sema[1] - 1)
           ELSE /\ pc' = [pc EXCEPT ![i] = "c_acq"]
                /\ UNCHANGED <<tk, sema>>
    /\ UNCHANGED <<cfgvars, tasks, max_workers, with_submit, kids, collected,
                   tbvars, lock, tpbvars, tg>>

\* line 157: acquire() returns once a permit has been released
async_works_acquire(i) ==
    /\ Scheduled(i)
    /\ ~Cancelling
    /\ pc[i] = "c_acq"
    /\ PermitFree
    /\ EnterWork(i)
    /\ sema' = Some(sema[1] - 1)
    /\ UNCHANGED <<cfgvars, tasks, max_workers, with_submit, kids, collected,
                   tbvars, lock, tpbvars, tg>>

\* lines 166-169: KeyboardInterrupt is re-raised and aborts the group; any
\* other exception is replaced by CancelledError, which ends the child as a
\* cancelled task: a TaskGroup does not abort for a cancelled child
Outcome(kind) == IF kind = "kbd" THEN "c_failed" ELSE "c_cancelled"

\* lines 153-169: the work function resumes and returns r or raises; the
\* permit is released; callback(r)
async_works_resume(i) ==
    /\ Scheduled(i)
    /\ pc[i] = "c_work"
    /\ sema' = Release
    /\ IF Raises(tk[i].val)
         THEN /\ tk' = [tk EXCEPT ![i].exc = TRUE]
              /\ pc' = [pc EXCEPT ![i] = Outcome(work.kind)]
              /\ tg' = IF Outcome(work.kind) = "c_failed" THEN "aborting" ELSE tg
              /\ UNCHANGED collected
         ELSE IF CbRaises(tk[i].val)
           THEN /\ tk' = [tk EXCEPT ![i].cb = @ + 1, ![i].cbexc = TRUE]
                /\ pc' = [pc EXCEPT ![i] = Outcome(work.kind)]
                /\ tg' = IF Outcome(work.kind) = "c_failed" THEN "aborting" ELSE tg
                /\ UNCHANGED collected
         ELSE IF callback /\ callback_kind = "awaits"
           THEN /\ tk' = [tk EXCEPT ![i].cb = @ + 1]
                /\ pc' = [pc EXCEPT ![i] = "c_cb"]
                /\ UNCHANGED <<tg, collected>>
         ELSE /\ pc' = [pc EXCEPT ![i] = "c_done"]
              /\ UNCHANGED tg
              /\ IF callback
                   THEN /\ tk' = [tk EXCEPT ![i].cb = @ + 1]
                        /\ collected' = collected \cup {Result(tk[i].val)}
                   ELSE UNCHANGED <<tk, collected>>
    /\ UNCHANGED <<cfgvars, tasks, max_workers, with_submit, kids,
                   tbvars, lock, tpbvars>>

\* lines 163-165: if isawaitable(t): await t.  The awaitable the callback
\* returned completes
async_works_callback(i) ==
    /\ Scheduled(i)
    /\ pc[i] = "c_cb"
    /\ pc' = [pc EXCEPT ![i] = "c_done"]
    /\ collected' = collected \cup {Result(tk[i].val)}
    /\ UNCHANGED <<cfgvars, tasks, max_workers, sema, with_submit, kids, tk,
                   tbvars, lock, tpbvars, tg>>

\* the group is aborting: a child that has not finished is cancelled at its
\* suspension point (before its first step, in acquire(), inside work, where
\* leaving async with sema releases the permit, or in await t)
async_works_cancelled(i) ==
    /\ Scheduled(i)
    /\ Cancelling
    /\ pc[i] \in {"c_new", "c_acq", "c_work", "c_cb"}
    /\ sema' = IF pc[i] = "c_work" THEN Release ELSE sema
    /\ pc' = [pc EXCEPT ![i] = "c_cancelled"]
    /\ UNCHANGED <<cfgvars, tasks, max_workers, with_submit, kids, tk, collected,
                   tbvars, lock, tpbvars, tg>>

\* (variant: the group waits for the children of the caller's loop only)
ChildFinished_initial_only(i) ==
    tk[i].by # Main \/ pc[i] \in {"c_done", "c_cancelled", "c_failed"}

\* a child is finished when its coroutine has returned or raised
ChildFinished(i) == pc[i] \in {"c_done", "c_cancelled", "c_failed"}

\* line 172: TaskGroup.__aexit__ returns when no child is left, and raises
\* if the group was aborted
async_batch_exit ==
    /\ backend = "async"
    /\ pc[Main] = "a_exit"
    /\ \A i \in 1..Len(tk) : ChildFinished(i)
    /\ pc' = [pc EXCEPT ![Main] = IF tg = "aborting" THEN "raised" ELSE "returned"]
    /\ tg' = "closed"
    /\ UNCHANGED <<cfgvars, tasks, max_workers, sema, with_submit, kids, tk,
                   collected, tbvars, lock, tpbvars>>

async_batch ==
    \/ async_batch_argcheck
    \/ async_batch_loop
    \/ async_batch_exit

async_works(i) ==
    \/ async_works_start(i)
    \/ async_works_acquire(i)
    \/ async_works_resume(i)
    \/ async_works_callback(i)
    \/ async_works_cancelled(i)

Next ==
    \/ thread_batch
    \/ \E t \in Threads : submit(t)
    \/ worker
    \/ thread_pool_batch
    \/ \E t \in Threads : pool_submit(t)
    \/ pool_thread_take
    \/ \E t \in Workers : works(t)
    \/ async_batch
    \/ \E t \in Workers : async_works(t)

Spec == Init /\ [][Next]_vars

\* The two thread backends in an environment that may also misbehave: the
\* iterable of tasks may raise, a thread may fail to start, the caller may
\* be interrupted while it waits in q.join(), and the work function may be
\* one that hands submit to a helper thread.
EnvInit == Start({"thread", "pool"}, {w \in WorkFns : w.kind = "exc"} \cup LateWorkFns)

EnvNext ==
    \/ thread_batch
    \/ thread_batch_iter_raises
    \/ submit_start_fails
    \/ thread_batch_interrupt
    \/ \E t \in Threads : submit(t)
    \/ worker
    \/ thread_pool_batch
    \/ \E t \in Threads : pool_submit(t)
    \/ pool_thread_take
    \/ \E t \in Workers : works(t)
    \/ \E i \in Workers : helper_submit(i)

EnvSpec == EnvInit /\ [][EnvNext]_vars

\* Every thread that can run is scheduled: the caller, each thread inside the
\* work function, the workers of thread_batch and the threads of the pool.
Fairness ==
    /\ WF_vars(thread_batch \/ submit(Main))
    /\ WF_vars(thread_pool_batch \/ pool_submit(Main))
    /\ WF_vars(async_batch)
    /\ \A t \in Workers :
         WF_vars(submit(t) \/ worker_task_done(t) \/ pool_submit(t) \/ works(t)
                 \/ async_works(t))
    /\ WF_vars(worker_loop)
    /\ WF_vars(worker_get)
    /\ WF_vars(worker_sentinal)
    /\ WF_vars(pool_thread_take)

FairSpec == Init /\ [][Next]_vars /\ Fairness

\* ------------------------------------------------------------- properties
Returned == pc[Main] = "returned"
Ended == pc[Main] \in {"returned", "raised"}
Pushed == 1..Len(tk)
PastJoin == pc[Main] \in {"m_stop", "m_clear", "m_sent", "returned"}
InWork(i) == pc[i] \in {"s_check", "s_lock", "s_crit", "s_put", "w_ret"}
IdleWorkers == idle["w_loop"] + idle["w_get"] + idle["w_sent"] + idle["w_exit"]
Outstanding(i) == tk[i].st \in {"counted", "queued", "running"}
InitialTasks == {i \in Pushed : tk[i].by = Main}
InsideWork == {i \in Pushed : pc[i] = "c_work"}
NoFailure == work.fail = NoFail /\ callback_kind # "raises"
InSubmit(t) == pc[t] \in {"s_check", "s_lock", "s_crit", "s_put"}
Markers == Cardinality({k \in 1..Len(q) : q[k] = Sentinal}) + idle["w_sent"]

\* C1: with a work function that takes the task alone and never fails, a
\* call that has returned has consumed the whole initial collection, has
\* invoked work exactly once for every task and, with a callback, has
\* passed every result x * 2 to the callback.
C1_ReturnsAfterEveryTask ==
    (Returned /\ argcount(work) = 1 /\ work.fail = NoFail
              /\ callback_kind # "raises") =>
        /\ tasks = <<>>
        /\ \A i \in Pushed : tk[i].inv = 1
        /\ callback => /\ \A i \in Pushed : tk[i].cb = 1
                       /\ collected = {2 * tk[i].val : i \in Pushed}

\* C2: with the single initial task K and work(x, submit) submitting x - 1
\* once when x > 0, a call that has returned has invoked work exactly once
\* for each of K, K - 1, ..., 0, and for nothing else.
C2_ChainRunsToZero ==
    (Returned /\ argcount(work) = 2 /\ work.fan = 1 /\ work.fail = NoFail
              /\ Cardinality(InitialTasks) = 1) =>
        /\ Len(tk) = tk[1].val + 1
        /\ \A i \in Pushed : tk[i].val = tk[1].val - (i - 1) /\ tk[i].inv = 1

C2_Witness ==
    /\ backend = "pool"
    /\ Returned
    /\ argcount(work) = 2 /\ work.fan = 1 /\ work.fail = NoFail
    /\ Len(tk) = 4
    /\ tk[1].val = 3
    /\ \A i \in Pushed : tk[i].inv = 1

\* C3: in thread_pool_batch the event is not set, and the caller is not on
\* its way to pool.shutdown, while a task counted by submit has not finished
\* its works() invocation.
C3_NoSignalWhileOutstanding ==
    (backend = "pool" /\ (done_evt \/ pc[Main] \in {"p_shutdown", "returned"})) =>
        \A i \in Pushed : ~Outstanding(i)

\* C4: in thread_batch no task is run or marked done twice, and the caller
\* is past q.join() only when the initial collection is exhausted and every
\* task pushed, by the caller or by submit from inside work, has been run
\* once and marked done once.
C4_JoinCoversEveryPush ==
    backend = "thread" =>
        /\ \A i \in Pushed : tk[i].inv <= 1 /\ tk[i].done <= tk[i].inv
        /\ PastJoin => /\ tasks = <<>>
                       /\ \A i \in Pushed : tk[i].inv = 1 /\ tk[i].done = 1

C4_Witness ==
    /\ backend = "thread"
    /\ Returned
    /\ work.fan = 2
    /\ Len(tk) = 3
    /\ \E i \in Pushed : tk[i].by # Main
    /\ \A i \in Pushed : tk[i].inv = 1 /\ tk[i].done = 1

\* C5: in thread_batch the number of workers started never exceeds
\* max_workers.
C5_WorkersWithinCap ==
    (backend = "thread" /\ pc[Main] \notin {"argcheck", "raised"}) =>
        nthreads <= MW /\ IdleWorkers + Cardinality({i \in Pushed : InWork(i)}) <= MW

\* two submitters are past the unlocked check although one more worker
\* reaches the cap
C5_Witness ==
    /\ backend = "thread"
    /\ pc[Main] \notin {"argcheck", "raised"}
    /\ nthreads = MW - 1
    /\ \E t, u \in Threads : t # u /\ pc[t] = "s_crit" /\ pc[u] = "s_lock"

\* C6: in async_batch, once a child's work has raised an exception that is
\* not a KeyboardInterrupt the group is being cancelled, and the call ends
\* by raising.
C6_FailureCancelsGroup ==
    (backend = "async" /\ work.kind = "exc" /\ \E i \in Pushed : tk[i].exc) =>
        /\ tg \in {"aborting", "closed"}
        /\ Ended => pc[Main] = "raised"

\* C7: in thread_batch a work invocation that raises is marked done once
\* and its result is not passed on, no worker leaves its loop or dies
\* before the caller is past q.join(), the call does not raise, and it is
\* past q.join() only when every task has been run and marked done.
C7_FailureIsIsolated ==
    (backend = "thread" /\ argcount(work) >= 1) =>
        /\ pc[Main] # "raised"
        /\ \A i \in Pushed : tk[i].exc => tk[i].done = 1 /\ tk[i].cb = 0
        /\ \A i \in Pushed : pc[i] # "dead"
        /\ IdleWorkers + Cardinality({i \in Pushed : InWork(i)}) = nthreads
        /\ ~PastJoin => idle["w_exit"] = 0
        /\ PastJoin => \A i \in Pushed : tk[i].inv = 1 /\ tk[i].done = 1

\* the only worker has run a failing task and then the next one
C7_Witness ==
    /\ backend = "thread"
    /\ Returned
    /\ MW = 1
    /\ Len(tk) >= 2
    /\ tk[1].exc
    /\ tk[2].inv = 1 /\ tk[2].done = 1 /\ ~tk[2].exc

\* C8: in thread_pool_batch an invocation that raised has taken itself off
\* the counter exactly once, the counter is zero once every task pushed has
\* made its decrement, and the call does not raise.
C8_FailureStillDecrements ==
    (backend = "pool" /\ argcount(work) >= 1) =>
        /\ pc[Main] # "raised"
        /\ \A i \in Pushed : tk[i].done <= 1
        /\ \A i \in Pushed : (tk[i].exc /\ pc[i] \in {"k_test", "fin"}) => tk[i].done = 1
        /\ (\A i \in Pushed : pc[i] \in {"k_test", "fin"}) => ntasks = 0

C8_Witness ==
    /\ backend = "pool"
    /\ Returned
    /\ Len(tk) >= 2
    /\ \E i \in Pushed : tk[i].exc /\ tk[i].done = 1
    /\ \E i \in Pushed : ~tk[i].exc /\ tk[i].done = 1
    /\ \A i \in Pushed : pc[i] = "fin"
    /\ ntasks = 0

\* C9: a work function without a positional argument makes the call raise
\* before a worker, a pool, a group or a task exists, and every invocation
\* of a batch uses the call shape the arity gives.
C9_ArityCheckedFirst ==
    /\ argcount(work) < 1 =>
          /\ pc[Main] \in {"argcheck", "raised"}
          /\ nthreads = 0 /\ IdleWorkers = 0
          /\ pool = "none" /\ tg = "none"
          /\ tk = <<>> /\ q = <<>> /\ wq = <<>>
          /\ \A t \in Workers : pc[t] = "off"
    /\ \A i \in Pushed :
          tk[i].shape \in {0, IF argcount(work) > 1 THEN 2 ELSE 1}

C9_Witness ==
    /\ argcount(work) = 0
    /\ pc[Main] = "raised"
    /\ tasks # <<>>
    /\ tk = <<>>

\* C10: every call of thread_batch and of thread_pool_batch ends.
C10_CallEnds == <>(backend = "async" \/ Ended)

\* the default cap took the place of a missing or non-positive max_workers
\* and the call returned after running recursive submissions
C10_Witness ==
    /\ backend = "thread"
    /\ Returned
    /\ MW = Min(32, cpu_count + 4)
    /\ \E i \in Pushed : tk[i].by # Main

\* C11: in async_batch with a semaphore created with P permits, never more
\* than P children are inside the work function, however many children are
\* registered, and, when nothing fails, every child registered eventually
\* gets a permit and runs the work function once.
C11_SemaphoreBoundsWork ==
    /\ []((backend = "async" /\ permits # None) =>
             /\ Cardinality(InsideWork) <= permits[1]
             /\ \A i \in Pushed : tk[i].inv <= 1)
    /\ <>((backend = "async" /\ permits # None /\ argcount(work) >= 1 /\ NoFailure) =>
             /\ tasks = <<>>
             /\ \A i \in Pushed : tk[i].inv = 1)

\* more children than permits: every permit is taken and two children wait
\* in acquire()
C11_Witness ==
    /\ backend = "async"
    /\ permits # None
    /\ Cardinality(InsideWork) = permits[1]
    /\ Cardinality({i \in Pushed : pc[i] = "c_acq"}) >= 2

\* C12: when neither work nor callback raises, async_batch has returned only
\* when the initial collection is exhausted and every child registered, by
\* the caller's loop or by submit from inside a running child, has run the
\* work function once and is finished, the awaitable its callback returned
\* included.
C12_ReturnsAfterEveryChild ==
    (backend = "async" /\ Returned /\ NoFailure) =>
        /\ tasks = <<>>
        /\ \A i \in Pushed : pc[i] = "c_done" /\ tk[i].inv = 1
        /\ callback => \A i \in Pushed :
                          tk[i].cb = 1 /\ Result(tk[i].val) \in collected

\* the call returned after children registered from inside running children
\* had awaited their callbacks
C12_Witness ==
    /\ backend = "async"
    /\ Returned
    /\ NoFailure
    /\ callback_kind = "awaits"
    /\ Len(tk) >= 3
    /\ \E i \in Pushed : tk[i].by # Main /\ tk[i].cb = 1 /\ pc[i] = "c_done"

\* C13: in thread_pool_batch the counter is never negative and equals the
\* number of tasks that submit has counted and whose works() has not made
\* its decrement, and a task submitted from inside a work invocation is
\* counted before the decrement of that invocation.
C13_CounterIsInFlight ==
    backend = "pool" =>
        /\ ntasks >= 0
        /\ \A i \in Pushed : tk[i].done \in {0, 1}
        /\ ntasks = Cardinality({i \in Pushed : tk[i].done = 0})
        /\ \A p \in Pushed : pc[p] \in {"p_inc", "p_create"} => tk[p].done = 0
        /\ \A p \in Pushed : (pc[p] = "k_ret" \/ (tk[p].done = 1 /\ ~tk[p].exc)) =>
              Cardinality({i \in Pushed : tk[i].by = p}) = NKids(tk[p].val)

\* an invocation has made its decrement while the task it submitted is still
\* counted
C13_Witness ==
    /\ backend = "pool"
    /\ ntasks = 1
    /\ \E i \in Pushed : /\ tk[i].by # Main
                          /\ tk[i].done = 0
                          /\ tk[tk[i].by].done = 1

\* C14: in thread_pool_batch at most one works() invocation executes
\* done_evt.set(), and it executes it once.
C14_EventSetOnce ==
    backend = "pool" =>
        /\ Cardinality({i \in Pushed : tk[i].sig > 0}) <= 1
        /\ \A i \in Pushed : tk[i].sig <= 1

\* C15: once thread_batch has returned, running is False and the queue holds
\* nothing but the sentinal, which is there once or in the hands of the
\* worker that is pushing it back; and every worker started eventually
\* leaves its loop.
C15_WorkersExit ==
    /\ []((backend = "thread" /\ Returned) =>
             /\ ~running
             /\ Markers = 1
             /\ \A k \in 1..Len(q) : q[k] = Sentinal)
    /\ <>((backend = "thread" /\ argcount(work) >= 1) =>
             /\ Returned
             /\ idle["w_exit"] = nthreads)

\* two workers have left their loops and the sentinal is still in the queue
C15_Witness ==
    /\ backend = "thread"
    /\ Returned
    /\ nthreads = 2
    /\ idle["w_exit"] = 2
    /\ q = <<Sentinal>>
    /\ Len(tk) >= 2

\* C20: in thread_batch nthreads never decreases, and whenever no submit
\* call is in progress it is the smaller of the number of submit calls made
\* and max_workers; while calls are in progress it is at least that.
C20_WorkersGrowWithPushes ==
    /\ [][nthreads' >= nthreads]_vars
    /\ []((backend = "thread" /\ argcount(work) >= 1 /\ pc[Main] # "argcheck") =>
             /\ nthreads >= Min(Len(tk), MW)
             /\ (\A t \in Threads : ~InSubmit(t)) => nthreads = Min(Len(tk), MW))

\* the second worker was started although the first one was waiting for a
\* task, and the pushes after that started none
C20_Witness ==
    /\ backend = "thread"
    /\ pc[Main] = "m_join"
    /\ \A t \in Threads : ~InSubmit(t)
    /\ MW = 2
    /\ nthreads = 2
    /\ Len(tk) >= 3
    /\ idle["w_loop"] + idle["w_get"] = 2

\* C17: a callback that raises is treated like a work function that raises.
\* In thread_batch the exception is discarded: the task is marked done once,
\* the worker goes on and the call does not raise.  In thread_pool_batch it
\* ends that task only: the counter is decremented once for it and the call
\* does not raise.  In async_batch the child ends as a child whose work
\* raised ends.  The accounting of unfinished tasks, of the counter and of
\* the permits stays exact.
C17_CallbackFailureLikeWorkFailure ==
    /\ (backend = "thread" /\ argcount(work) >= 1) =>
          /\ pc[Main] # "raised"
          /\ \A i \in Pushed : pc[i] # "dead"
          /\ \A i \in Pushed : (tk[i].exc \/ tk[i].cbexc) =>
                 tk[i].done = 1 /\ pc[i] = "fin" /\ tk[i].cb = (IF tk[i].cbexc THEN 1 ELSE 0)
          /\ IdleWorkers + Cardinality({i \in Pushed : InWork(i)}) = nthreads
          /\ ~PastJoin => unfinished = Cardinality({i \in Pushed : tk[i].done = 0})
    /\ (backend = "pool" /\ argcount(work) >= 1) =>
          /\ pc[Main] # "raised"
          /\ \A i \in Pushed : ((tk[i].exc \/ tk[i].cbexc) /\ pc[i] \in {"k_test", "fin"}) =>
                 tk[i].done = 1
          /\ ntasks = Cardinality({i \in Pushed : tk[i].done = 0})
    /\ backend = "async" =>
          /\ \A i \in Pushed : (tk[i].exc \/ tk[i].cbexc) =>
                 /\ pc[i] = Outcome(work.kind)
                 /\ Outcome(work.kind) = "c_failed" => tg \in {"aborting", "closed"}
          /\ permits # None => sema[1] + Cardinality(InsideWork) = permits[1]
    /\ callback_kind = "raises" => Result(0) \notin collected

\* the only worker has run a task whose callback raised and then the next
\* task, whose result the callback collected
C17_Witness ==
    /\ backend = "thread"
    /\ Returned
    /\ MW = 1
    /\ Len(tk) >= 2
    /\ tk[1].cbexc
    /\ tk[2].inv = 1 /\ tk[2].done = 1 /\ tk[2].cb = 1 /\ ~tk[2].cbexc
    /\ Result(tk[2].val) \in collected

\* C16: in thread_batch and thread_pool_batch, when the call has returned,
\* every task a helper thread submitted while the call was in progress has
\* been counted and run once, and in thread_batch no task lies in the queue
\* behind the sentinal.
C16_LateSubmitIsRun ==
    (backend \in {"thread", "pool"} /\ Returned) =>
        /\ \A h \in Helpers : pc[h] # "off" =>
              \E i \in Pushed : tk[i].by = h /\ tk[i].inv = 1
        /\ \A k \in 1..Len(q) : q[k] = Sentinal

\* C18: when thread_batch has ended after starting a worker, by returning
\* or by raising, running is False and the sentinal has been pushed.
C18_TeardownOnEveryExit ==
    (backend = "thread" /\ Ended /\ nthreads > 0) =>
        /\ ~running
        /\ Markers >= 1

\* C19: in async_batch with a semaphore the permits taken are those of the
\* children inside the work function: none is negative or lost, a child
\* whose callback has been called holds none, and when the call has ended,
\* by returning or by raising, the semaphore has the permits it was created
\* with.
C19_PermitsNeverLeak ==
    (backend = "async" /\ permits # None) =>
        /\ sema[1] >= 0
        /\ sema[1] + Cardinality(InsideWork) = permits[1]
        /\ \A i \in Pushed : tk[i].cb > 0 => i \notin InsideWork
        /\ Ended => sema = permits

\* the call has raised after a child failed: one child was cancelled while it
\* held a permit and one while it waited for a permit, and both permits are
\* back
C19_Witness ==
    /\ backend = "async"
    /\ permits = Some(2)
    /\ pc[Main] = "raised"
    /\ sema = permits
    /\ \E i \in Pushed : tk[i].exc /\ pc[i] = "c_failed"
    /\ \E i \in Pushed : tk[i].inv = 1 /\ pc[i] = "c_cancelled"
    /\ \E i \in Pushed : tk[i].inv = 0 /\ pc[i] = "c_cancelled"
====
